---- MODULE Spec2Model ----
(***************************************************************************)
(* The chat / transaction subsystem of RIT-Marketplace:                    *)
(*   server/websocket.ts  - the realtime router and the connection map     *)
(*   server/routes.ts     - the REST routes over products, chats, messages *)
(*   server/storage.ts    - DatabaseStorage (one SQL statement per method) *)
(*                                                                         *)
(* Every handler is async: it runs synchronously up to a storage call,     *)
(* suspends, and resumes when the call returns.  A handler is therefore a  *)
(* task with a program counter; one action is one resumption: the storage  *)
(* call that was awaited together with the synchronous code that follows   *)
(* it up to the next storage call.                                         *)
(***************************************************************************)
EXTENDS Integers, Sequences, FiniteSets, Bags, TLC

\* ---------------------------------------------------------------- bounds
MaxProducts == 1
MaxChats == 1
MaxMessages == 1
MaxInFlight == 1
\* entries of the connection map, over all users
MaxRegistered == 3
\* handlers in flight at a time in the specifications of overlapping handlers
MaxAsync == 2
\* rows of the chats table in the specification of overlapping chat creation
MaxChatRows == 2

\* ---------------------------------------------------------------- domains
\* Session identities (serial user ids start at 1).
Users == {1, 2}
\* userId values an auth frame may carry: the ids of users and 0.
ClaimedIds == {0} \cup Users
\* Handles of the WebSocket objects the server creates, one per connection.
Conns == {"c1", "c2"}
\* The single client of the specification Spec.
OneConn == {"c1"}
\* The user whose session opened each connection: the pages that open the
\* socket are served to a logged-in user.  The server takes the socket
\* without the upgrade request, so it never reads this.
SessionOf == [c \in Conns |-> IF c = "c1" THEN 2 ELSE 1]

\* null / undefined of a numeric slot
Null == 0 - 1
\* an absent (undefined) string or boolean field of a frame or body
Absent == "absent"

\* JavaScript truthiness of a number-or-null value: !x is true for null,
\* undefined and 0.
Truthy(x) == x # Null /\ x # 0

NoChat == [id |-> 0, productId |-> 0, buyerId |-> 0, sellerId |-> 0,
           orderType |-> "null", isCompleted |-> FALSE]

VARIABLES
    products,     \* storage: products table, row id = index
    chats,        \* storage: chats table, row id = index
    messages,     \* storage: messages table, row id = index
    connections,  \* websocket.ts: Map<number, WebSocket[]>, the entries
                  \* [key, sockets] in insertion order
    readyState,   \* per handle: "new" (not yet accepted), "open",
                  \* "closing" (close frame seen, close event pending), "closed"
    userId,       \* per handle: the closure variable userId (Null = null)
    tasks,        \* bag of suspended handlers
    last          \* the handler that finished in the latest step, if any

vars == <<products, chats, messages, connections, readyState, userId, tasks, last>>

\* ---------------------------------------------------------------- storage
\* DatabaseStorage.getChat: the row with that id, or undefined.
getChat(id) ==
    IF id \in 1..Len(chats) THEN chats[id] ELSE NoChat

\* DatabaseStorage.getProduct: the row with that id, or undefined (id 0).
getProduct(id) ==
    IF id \in 1..Len(products) THEN products[id]
    ELSE [id |-> 0, sellerId |-> 0, isSold |-> FALSE,
          allowCampusMeetup |-> FALSE, allowDelivery |-> FALSE,
          allowPickup |-> FALSE]

\* DatabaseStorage.getChatBetweenUsers: first row matching the triple.
getChatBetweenUsers(productId, buyerId, sellerId) ==
    LET hits == {i \in 1..Len(chats) :
                    /\ chats[i].productId = productId
                    /\ chats[i].buyerId = buyerId
                    /\ chats[i].sellerId = sellerId}
    IN IF hits = {} THEN NoChat
       ELSE chats[CHOOSE i \in hits : \A j \in hits : i <= j]

\* DatabaseStorage.createChat: insert with the column defaults.
createChat(productId, buyerId, sellerId) ==
    Append(chats, [id |-> Len(chats) + 1, productId |-> productId,
                   buyerId |-> buyerId, sellerId |-> sellerId,
                   orderType |-> "null", isCompleted |-> FALSE])

\* The row after db.update(chats).set(updates): only the keys present in
\* updates are written.
ApplyUpdates(chat, updates) ==
    [chat EXCEPT
        !.orderType = IF updates.orderType = Absent THEN @ ELSE updates.orderType,
        !.isCompleted = IF updates.isCompleted = Absent THEN @
                        ELSE updates.isCompleted = "true"]

\* DatabaseStorage.updateChat
updateChat(id, updates) ==
    [chats EXCEPT ![id] = ApplyUpdates(@, updates)]

\* The product write left out.
markProductAsSold_Noop(id) == products

\* DatabaseStorage.markProductAsSold / updateProduct(id, {isSold: true})
markProductAsSold(id) ==
    [products EXCEPT ![id].isSold = TRUE]

\* A boolean column of an inserted row: the value given, or the column
\* default when the key is absent.
OrDefault(x, default) == IF x = Absent THEN default ELSE x = "true"

\* DatabaseStorage.createProduct: insert the given values; isSold and the
\* delivery flags the body leaves out get the column defaults.
createProduct(insertProduct) ==
    Append(products,
           [id |-> Len(products) + 1, sellerId |-> insertProduct.sellerId,
            isSold |-> FALSE,
            allowCampusMeetup |-> OrDefault(insertProduct.allowCampusMeetup, TRUE),
            allowDelivery |-> OrDefault(insertProduct.allowDelivery, FALSE),
            allowPickup |-> OrDefault(insertProduct.allowPickup, FALSE)])

\* DatabaseStorage.createMessage: the inserted row.
NewMessage(chatId, senderId, text) ==
    [id |-> Len(messages) + 1, chatId |-> chatId, senderId |-> senderId,
     text |-> text]

createMessage(chatId, senderId, text) ==
    Append(messages, NewMessage(chatId, senderId, text))

\* ---------------------------------------------------------------- checks
\* req.isAuthenticated(): the request carries an established session
\* (req.user is that session's user).
IsAuthenticated(u) == u # Null

\* The gate left out.
Unauthenticated_Never(u) == FALSE

\* if (!userId): the connection has no bound user.
Unauthenticated(u) == ~Truthy(u)

\* The participant check against the buyer only.
IsParticipant_BuyerOnlyOrAnyone(chat, u) == chat.buyerId = u \/ chat.sellerId # u

\* chat.buyerId !== userId && chat.sellerId !== userId, negated.
IsParticipant(chat, u) == chat.buyerId = u \/ chat.sellerId = u

\* The seller check widened to both participants.
IsSeller_OrBuyer(chat, u) == chat.sellerId = u \/ chat.buyerId = u

\* chat.sellerId !== userId, negated.
IsSeller(chat, u) == chat.sellerId = u

\* The completed check left out.
IsCompleted_Never(chat) == FALSE

\* if (chat.isCompleted)
IsCompleted(chat) == chat.isCompleted

\* insertProductSchema.parse(req.body) does not throw: the required columns
\* are present, the text columns (title stands for them) and sellerId.
insertProductSchema(body) == body.title # Absent /\ body.sellerId # Null

\* insertChatSchema.parse(req.body) does not throw: the three ids are
\* numbers.
insertChatSchema(body) ==
    body.productId # Null /\ body.buyerId # Null /\ body.sellerId # Null

\* z.enum(["campus", "delivery", "pickup"])
OrderTypes == {"campus", "delivery", "pickup"}

\* updateChatSchema.parse(req.body) does not throw: orderType, when present,
\* is of the enum and isCompleted, when present, is a boolean.
updateChatSchema(body) ==
    /\ body.orderType \in OrderTypes \cup {Absent}
    /\ body.isCompleted \in {"true", "false", Absent}

\* The cascade run for every update.
AsksCompletion_Always(updates) == TRUE

\* if (updates.isCompleted) / if (validatedData.isCompleted)
AsksCompletion(updates) == updates.isCompleted = "true"

\* ---------------------------------------------------------------- registry
\* Array.prototype.indexOf on a list of handles (0 when absent).
IndexOf(list, c) ==
    IF \E i \in 1..Len(list) : list[i] = c
    THEN CHOOSE i \in 1..Len(list) : list[i] = c /\ \A j \in 1..(i-1) : list[j] # c
    ELSE 0

\* Array.prototype.splice(index, 1)
Splice(list, i) ==
    [j \in 1..(Len(list) - 1) |-> IF j < i THEN list[j] ELSE list[j + 1]]

\* The keys of the map.
Keys(conns) == {conns[i].key : i \in 1..Len(conns)}

\* connections.has(userId)
Has(conns, u) == u \in Keys(conns)

\* connections.get(userId), for a key the map has.
Get(conns, u) == conns[CHOOSE i \in 1..Len(conns) : conns[i].key = u].sockets

\* auth branch: create the user's list if missing (a new key goes to the end
\* of the map), then push the handle.
Register(conns, u, c) ==
    IF Has(conns, u)
    THEN [i \in 1..Len(conns) |->
             IF conns[i].key = u
             THEN [conns[i] EXCEPT !.sockets = Append(@, c)] ELSE conns[i]]
    ELSE Append(conns, [key |-> u, sockets |-> <<c>>])

\* The close handler without the clean-up of an emptied list.
Unregister_KeepsEntry(conns, u, c) ==
    IF ~Truthy(u) \/ ~Has(conns, u) THEN conns
    ELSE LET i == IndexOf(Get(conns, u), c)
         IN [k \in 1..Len(conns) |->
                IF conns[k].key = u /\ i # 0
                THEN [conns[k] EXCEPT !.sockets = Splice(@, i)] ELSE conns[k]]

\* close handler: remove the first occurrence of the handle from the list of
\* the bound user and delete the entry when the list became empty.
Unregister(conns, u, c) ==
    IF ~Truthy(u) \/ ~Has(conns, u) THEN conns
    ELSE LET i == IndexOf(Get(conns, u), c)
             rest == IF i # 0 THEN Splice(Get(conns, u), i) ELSE Get(conns, u)
         IN IF Len(rest) = 0
            THEN SelectSeq(conns, LAMBDA e : e.key # u)
            ELSE [k \in 1..Len(conns) |->
                     IF conns[k].key = u
                     THEN [conns[k] EXCEPT !.sockets = rest] ELSE conns[k]]

\* The handles of a list whose readyState is OPEN, in order, with repeats.
OpenOnly(list) == SelectSeq(list, LAMBDA c : readyState[c] = "open")

\* Concatenation of the lists of the map in its iteration order, the order
\* in which the keys were inserted.
RECURSIVE Flatten(_)
Flatten(conns) ==
    IF conns = <<>> THEN <<>>
    ELSE Head(conns).sockets \o Flatten(Tail(conns))

\* One call that writes frames to sockets: who it was addressed to, the
\* frame, the handles the frame was actually written to, and whether the
\* call raised an exception.
\* ws.send(frame) on the handler's own socket (a socket that is no longer
\* open drops the frame).
Reply(c, ev) ==
    [op |-> "reply", ev |-> ev, to |-> OpenOnly(<<c>>), raised |-> FALSE]

\* sendToUser without the test of the looked-up list: forEach of undefined
\* raises a TypeError when the user has no entry.
sendToUser_Unguarded(u, ev) ==
    [op |-> "sendToUser", ev |-> ev,
     to |-> IF Has(connections, u) THEN OpenOnly(Get(connections, u)) ELSE <<>>,
     raised |-> ~Has(connections, u)]

\* sendToUser(userId, data): nothing happens when the user has no entry.
sendToUser(u, ev) ==
    [op |-> "sendToUser", ev |-> ev,
     to |-> IF Has(connections, u) THEN OpenOnly(Get(connections, u)) ELSE <<>>,
     raised |-> FALSE]

\* broadcastMessage(data)
broadcastMessage(ev) ==
    [op |-> "broadcast", ev |-> ev,
     to |-> OpenOnly(Flatten(connections)),
     raised |-> FALSE]

\* ---------------------------------------------------------------- frames
ErrorEv(m) == [type |-> "error", message |-> m]
AuthSuccess == [type |-> "auth_success"]
MessageEv(chatId, m) == [type |-> "message", chatId |-> chatId, message |-> m]
ChatUpdateEv(chat) ==
    [type |-> "chat_update",
     chat |-> [id |-> chat.id, orderType |-> chat.orderType,
               isCompleted |-> chat.isCompleted]]
ProductSoldEv(pid) == [type |-> "product_sold", productId |-> pid]

\* ---------------------------------------------------------------- requests
\* An inbound WebSocket frame after JSON.parse, or a REST request.  Fields a
\* request does not carry are undefined (Null / Absent).
Req(type) ==
    [type |-> type, userId |-> Null, chatId |-> Null, text |-> Absent,
     orderType |-> Absent, isCompleted |-> Absent,
     productId |-> Null, buyerId |-> Null, sellerId |-> Null,
     title |-> Absent, allowCampusMeetup |-> Absent,
     allowDelivery |-> Absent, allowPickup |-> Absent]

\* Users are interchangeable, so listings are posted by user 1 and chats are
\* requested for the pairs <<buyerId, sellerId>> that differ in kind: a buyer
\* with the product's seller (user 2 is the buyer, no user is an outsider),
\* and the seller with itself (user 2 is a participant of no such chat).
Sellers == {1}
\* Bodies of POST /api/products.  The listing form sends a sellerId, which
\* the route replaces by the session user.  A listing that leaves the
\* delivery flags to the column defaults, one that names another user as
\* seller and sets each flag to the opposite of its default, one without a
\* title and one without a sellerId.
DefaultListing ==
    [title |-> "desk", sellerId |-> 1, allowCampusMeetup |-> Absent,
     allowDelivery |-> Absent, allowPickup |-> Absent]
ProductBodies ==
    {DefaultListing,
     [DefaultListing EXCEPT !.sellerId = 2, !.allowCampusMeetup = "false",
                            !.allowDelivery = "true", !.allowPickup = "true"],
     [DefaultListing EXCEPT !.title = Absent],
     [DefaultListing EXCEPT !.sellerId = Null]}
ChatPairs == {<<2, 1>>, <<1, 1>>}
ChatIds == 1..MaxChats
ProductIds == 1..MaxProducts
Texts == {"hi"}
\* The updates an update_chat frame or a PATCH body asks for; "express" is
\* an orderType outside the enum.
UpdateInputs == {[orderType |-> Absent, isCompleted |-> "true"],
                 [orderType |-> Absent, isCompleted |-> "false"],
                 [orderType |-> "pickup", isCompleted |-> Absent],
                 [orderType |-> "express", isCompleted |-> Absent]}

WsFrames ==
    {[Req("auth") EXCEPT !.userId = u] : u \in ClaimedIds}
    \cup {[Req("new_message") EXCEPT !.chatId = i, !.text = t] :
            i \in ChatIds, t \in Texts \cup {Absent}}
    \cup {[Req("update_chat") EXCEPT !.chatId = i, !.orderType = x.orderType,
                                     !.isCompleted = x.isCompleted] :
            i \in ChatIds, x \in UpdateInputs}
    \cup {[Req("update_chat") EXCEPT !.isCompleted = "true"]}
    \cup {Req("malformed"), Req("unknown")}

\* The updates object built from a frame (websocket.ts) or parsed from a
\* body (routes.ts): the keys the request carries.
Updates(d) == [orderType |-> d.orderType, isCompleted |-> d.isCompleted]

\* ---------------------------------------------------------------- tasks
\* A suspended handler: the request, the connection (ws) or session user
\* (rest) it belongs to, where it resumes, and its local variables.  uid is
\* the value of userId (ws) or req.user.id (rest) that the handler read at
\* its latest check; new_message passes it on as senderId.  behind is the
\* number of handlers of the same connection that were still suspended when
\* the frame of this one arrived.
Task(kind, c, u, d, pc) ==
    [kind |-> kind, conn |-> c, user |-> u, data |-> d, pc |-> pc,
     chat |-> NoChat, uid |-> u, updatedChat |-> NoChat, wr |-> <<>>,
     behind |-> 0]

\* A finished handler: the task as it was when it returned (pc is the place
\* it returned from), the calls that sent frames, in order, and the HTTP
\* status it answered with (0 on the realtime channel).
Done(t, out, status) ==
    [kind |-> t.kind, conn |-> t.conn, user |-> t.user, data |-> t.data,
     pc |-> t.pc, chat |-> t.chat, uid |-> t.uid,
     updatedChat |-> t.updatedChat, wr |-> t.wr, behind |-> t.behind,
     out |-> out, status |-> status, threw |-> FALSE]

\* A handler that ended in its catch block.
Thrown(t, out, status) == [Done(t, out, status) EXCEPT !.threw = TRUE]

Idle == Done(Task("none", "", Null, Req("none"), "none"), <<>>, 0)

InFlight == BagCardinality(tasks)
Registered == Len(Flatten(connections))
One(t) == SetToBag({t})
\* The number of handlers suspended at pc.
Pending(pc) ==
    LET at == {x \in BagToSet(tasks) : x.pc = pc}
    IN BagCardinality([x \in at |-> tasks[x]])

Write(op, id) == [op |-> op, id |-> id]

Init ==
    /\ products = <<>>
    /\ chats = <<>>
    /\ messages = <<>>
    /\ connections = <<>>
    /\ readyState = [c \in Conns |-> "new"]
    /\ userId = [c \in Conns |-> Null]
    /\ tasks = EmptyBag
    /\ last = Idle

\* ---------------------------------------------------------------- realtime
\* wss.on('connection'): a new socket, userId = null.
Connect(c) ==
    /\ readyState[c] = "new"
    /\ readyState' = [readyState EXCEPT ![c] = "open"]
    /\ last' = Idle
    /\ UNCHANGED <<products, chats, messages, connections, userId, tasks>>

\* The peer's close frame arrives (or the server starts closing): the
\* socket stops being OPEN while ws.on('close') has not run yet, so the
\* handle is still registered and handlers already suspended go on.
Closing(c) ==
    /\ readyState[c] = "open"
    /\ readyState' = [readyState EXCEPT ![c] = "closing"]
    /\ last' = Idle
    /\ UNCHANGED <<products, chats, messages, connections, userId, tasks>>

\* ws.on('close'): the connection is gone, after a close frame or at once.
Close(c) ==
    /\ readyState[c] \in {"open", "closing"}
    /\ readyState' = [readyState EXCEPT ![c] = "closed"]
    /\ connections' = Unregister(connections, userId[c], c)
    /\ last' = Idle
    /\ UNCHANGED <<products, chats, messages, userId, tasks>>

\* The catch block of the message handler.
WsCatch(t) == Thrown(t, <<Reply(t.conn, ErrorEv("Invalid message format"))>>, 0)

\* The handler makes the calls in order and returns; a call that raises
\* takes it to the catch block, the calls after it are not made.
Sent(t, calls) ==
    IF \E k \in 1..Len(calls) : calls[k].raised
    THEN LET k == CHOOSE i \in 1..Len(calls) :
                      calls[i].raised /\ \A j \in 1..(i - 1) : ~calls[j].raised
         IN Thrown(t, SubSeq(calls, 1, k - 1)
                      \o <<Reply(t.conn, ErrorEv("Invalid message format"))>>, 0)
    ELSE Done(t, calls, 0)

\* ws.on('message'), from JSON.parse to the first storage call.
WsReceive(c, d) ==
    /\ readyState[c] = "open"
    /\ LET earlier == {x \in BagToSet(tasks) : x.kind = "ws" /\ x.conn = c}
           t == [Task("ws", c, Null, d, "recv") EXCEPT
                    !.uid = userId[c],
                    !.behind = BagCardinality([x \in earlier |-> tasks[x]])]
       IN
       IF d.type = "malformed" THEN
            /\ last' = WsCatch(t)
            /\ UNCHANGED <<connections, userId, tasks>>
       ELSE IF d.type = "auth" THEN
            /\ userId' = [userId EXCEPT ![c] = d.userId]
            /\ connections' = Register(connections, d.userId, c)
            /\ last' = Done(t, <<Reply(c, AuthSuccess)>>, 0)
            /\ UNCHANGED tasks
       ELSE IF Unauthenticated(userId[c]) THEN
            /\ last' = Done(t, <<Reply(c, ErrorEv("Authentication required"))>>, 0)
            /\ UNCHANGED <<connections, userId, tasks>>
       ELSE IF d.type = "new_message" /\ Truthy(d.chatId) /\ d.text # Absent THEN
            /\ tasks' = tasks (+) One([t EXCEPT !.pc = "nm_getChat"])
            /\ last' = Idle
            /\ UNCHANGED <<connections, userId>>
       ELSE IF d.type = "update_chat" /\ Truthy(d.chatId) THEN
            /\ tasks' = tasks (+) One([t EXCEPT !.pc = "uc_getChat"])
            /\ last' = Idle
            /\ UNCHANGED <<connections, userId>>
       ELSE
            /\ last' = Done(t, <<>>, 0)
            /\ UNCHANGED <<connections, userId, tasks>>
    /\ UNCHANGED <<products, chats, messages, readyState>>

\* new_message: storage.getChat returned; the checks; storage.createMessage
\* is called with senderId: userId.
WsNewMessageGetChat(t, fails) ==
    /\ t.kind = "ws" /\ t.pc = "nm_getChat"
    /\ LET c == t.conn
           chat == getChat(t.data.chatId)
           t1 == [t EXCEPT !.chat = chat, !.uid = userId[c]]
       IN
       IF fails THEN
            /\ last' = WsCatch(t)
            /\ tasks' = tasks (-) One(t)
       ELSE IF chat = NoChat THEN
            /\ last' = Done(t1, <<Reply(c, ErrorEv("Chat not found"))>>, 0)
            /\ tasks' = tasks (-) One(t)
       ELSE IF ~IsParticipant(chat, userId[c]) THEN
            /\ last' = Done(t1, <<Reply(c, ErrorEv("Not authorized for this chat"))>>, 0)
            /\ tasks' = tasks (-) One(t)
       ELSE IF IsCompleted(chat) THEN
            /\ last' = Done(t1, <<Reply(c, ErrorEv("Chat is completed"))>>, 0)
            /\ tasks' = tasks (-) One(t)
       ELSE
            /\ tasks' = (tasks (-) One(t))
                        (+) One([t1 EXCEPT !.pc = "nm_create"])
            /\ last' = Idle
    /\ UNCHANGED <<products, chats, messages, connections, readyState, userId>>

\* new_message: storage.createMessage returned; fan-out to the recipient and
\* confirmation to the sender.
WsNewMessageCreate(t, fails) ==
    /\ t.kind = "ws" /\ t.pc = "nm_create"
    /\ tasks' = tasks (-) One(t)
    /\ IF fails THEN
            /\ last' = WsCatch(t)
            /\ UNCHANGED messages
       ELSE
            /\ LET c == t.conn
                   chatId == t.data.chatId
                   message == NewMessage(chatId, t.uid, t.data.text)
                   recipientId == IF userId[c] = t.chat.buyerId
                                  THEN t.chat.sellerId ELSE t.chat.buyerId
                   messageData == MessageEv(chatId, message)
               IN
               /\ messages' = createMessage(chatId, t.uid, t.data.text)
               /\ last' = Sent([t EXCEPT !.wr = Append(@, Write("createMessage", message.id))],
                               <<sendToUser(recipientId, messageData),
                                 Reply(c, messageData)>>)
    /\ UNCHANGED <<products, chats, connections, readyState, userId>>

\* update_chat: storage.getChat returned; the seller check; the updates
\* object is built and storage.updateChat is called.
WsUpdateChatGetChat(t, fails) ==
    /\ t.kind = "ws" /\ t.pc = "uc_getChat"
    /\ LET c == t.conn
           chat == getChat(t.data.chatId)
           t1 == [t EXCEPT !.chat = chat, !.uid = userId[c]]
       IN
       IF fails THEN
            /\ last' = WsCatch(t)
            /\ tasks' = tasks (-) One(t)
       ELSE IF chat = NoChat THEN
            /\ last' = Done(t1, <<Reply(c, ErrorEv("Chat not found"))>>, 0)
            /\ tasks' = tasks (-) One(t)
       ELSE IF ~IsSeller(chat, userId[c]) THEN
            /\ last' = Done(t1, <<Reply(c, ErrorEv("Only seller can update chat"))>>, 0)
            /\ tasks' = tasks (-) One(t)
       ELSE
            /\ tasks' = (tasks (-) One(t))
                        (+) One([t1 EXCEPT !.pc = "uc_update"])
            /\ last' = Idle
    /\ UNCHANGED <<products, chats, messages, connections, readyState, userId>>

\* The tail of the update_chat branch: chat_update to the buyer and to the
\* seller's own socket.
WsChatUpdateOut(t) ==
    LET chatUpdate == ChatUpdateEv(t.updatedChat)
    IN <<sendToUser(t.chat.buyerId, chatUpdate), Reply(t.conn, chatUpdate)>>

\* update_chat: storage.updateChat returned.
WsUpdateChatUpdate(t, fails) ==
    /\ t.kind = "ws" /\ t.pc = "uc_update"
    /\ IF fails THEN
            /\ last' = WsCatch(t)
            /\ tasks' = tasks (-) One(t)
            /\ UNCHANGED chats
       ELSE
            /\ chats' = updateChat(t.data.chatId, Updates(t.data))
            /\ LET t1 == [t EXCEPT !.updatedChat = chats'[t.data.chatId],
                                   !.wr = Append(@, Write("updateChat", t.data.chatId))]
               IN IF AsksCompletion(Updates(t.data))
                  THEN /\ tasks' = (tasks (-) One(t)) (+) One([t1 EXCEPT !.pc = "uc_sold"])
                       /\ last' = Idle
                  ELSE /\ tasks' = tasks (-) One(t)
                       /\ last' = Sent(t1, WsChatUpdateOut(t1))
    /\ UNCHANGED <<products, messages, connections, readyState, userId>>

\* update_chat: storage.markProductAsSold returned; product_sold broadcast,
\* then the chat_update frames.
WsUpdateChatSold(t, fails) ==
    /\ t.kind = "ws" /\ t.pc = "uc_sold"
    /\ tasks' = tasks (-) One(t)
    /\ IF fails THEN
            /\ last' = WsCatch(t)
            /\ UNCHANGED products
       ELSE LET pid == t.chat.productId
                found == pid \in 1..Len(products)
                t1 == [t EXCEPT !.wr = IF found THEN Append(@, Write("markProductAsSold", pid))
                                       ELSE @]
            IN
            /\ products' = IF found THEN markProductAsSold(pid) ELSE products
            /\ last' = Sent(t1,
                            (IF found THEN <<broadcastMessage(ProductSoldEv(pid))>> ELSE <<>>)
                            \o WsChatUpdateOut(t1))
    /\ UNCHANGED <<chats, messages, connections, readyState, userId>>

\* ---------------------------------------------------------------- REST
\* A route handler runs for the session user u (req.user.id).  Its first
\* action is the arrival of the request: the session check and the parsing
\* that come before the first storage call, which it issues and awaits.
\* Each later action is the return of the awaited call.

\* POST /api/products arrives: the body must pass insertProductSchema;
\* sellerId is forced to the session user; storage.createProduct is called.
PostProduct(u, body) ==
    /\ LET d == [Req("POST /api/products") EXCEPT
                    !.title = body.title, !.sellerId = u,
                    !.allowCampusMeetup = body.allowCampusMeetup,
                    !.allowDelivery = body.allowDelivery,
                    !.allowPickup = body.allowPickup]
           t == Task("rest", "", u, d, "recv")
       IN IF ~IsAuthenticated(u) THEN
              /\ last' = Done(t, <<>>, 401)
              /\ UNCHANGED tasks
          ELSE IF ~insertProductSchema(body) THEN
              /\ last' = Done(t, <<>>, 400)
              /\ UNCHANGED tasks
          ELSE
              /\ tasks' = tasks (+) One([t EXCEPT !.pc = "pp_create"])
              /\ last' = Idle
    /\ UNCHANGED <<products, chats, messages, connections, readyState, userId>>

\* POST /api/products: storage.createProduct returned.
PostProductCreate(t, fails) ==
    /\ t.kind = "rest" /\ t.pc = "pp_create"
    /\ tasks' = tasks (-) One(t)
    /\ IF fails THEN
            /\ last' = Thrown(t, <<>>, 500)
            /\ UNCHANGED products
       ELSE
            /\ products' = createProduct(
                   [title |-> t.data.title, sellerId |-> t.data.sellerId,
                    allowCampusMeetup |-> t.data.allowCampusMeetup,
                    allowDelivery |-> t.data.allowDelivery,
                    allowPickup |-> t.data.allowPickup])
            /\ last' = Done([t EXCEPT !.wr = <<Write("createProduct", Len(products) + 1)>>],
                            <<>>, 201)
    /\ UNCHANGED <<chats, messages, connections, readyState, userId>>

\* POST /api/chats arrives: the body must pass insertChatSchema;
\* storage.getProduct is called.
PostChat(u, productId, buyerId, sellerId) ==
    /\ LET d == [Req("POST /api/chats") EXCEPT !.productId = productId,
                                               !.buyerId = buyerId,
                                               !.sellerId = sellerId]
           t == Task("rest", "", u, d, "recv")
       IN
       IF ~IsAuthenticated(u) THEN
            /\ last' = Done(t, <<>>, 401)
            /\ UNCHANGED tasks
       ELSE IF ~insertChatSchema(d) THEN
            /\ last' = Done(t, <<>>, 400)
            /\ UNCHANGED tasks
       ELSE
            /\ tasks' = tasks (+) One([t EXCEPT !.pc = "pc_getProduct"])
            /\ last' = Idle
    /\ UNCHANGED <<products, chats, messages, connections, readyState, userId>>

\* POST /api/chats: storage.getProduct returned; the product must exist;
\* storage.getChatBetweenUsers is called.
PostChatGetProduct(t, fails) ==
    /\ t.kind = "rest" /\ t.pc = "pc_getProduct"
    /\ IF fails THEN
            /\ last' = Thrown(t, <<>>, 500)
            /\ tasks' = tasks (-) One(t)
       ELSE IF getProduct(t.data.productId).id = 0 THEN
            /\ last' = Done(t, <<>>, 404)
            /\ tasks' = tasks (-) One(t)
       ELSE
            /\ tasks' = (tasks (-) One(t)) (+) One([t EXCEPT !.pc = "pc_find"])
            /\ last' = Idle
    /\ UNCHANGED <<products, chats, messages, connections, readyState, userId>>

\* POST /api/chats: storage.getChatBetweenUsers returned; an existing chat
\* of the triple is answered, otherwise the requester has to be the buyer or
\* the seller named in the body and storage.createChat is called.
PostChatFind(t, fails) ==
    /\ t.kind = "rest" /\ t.pc = "pc_find"
    /\ LET existingChat == getChatBetweenUsers(t.data.productId, t.data.buyerId,
                                               t.data.sellerId)
       IN
       IF fails THEN
            /\ last' = Thrown(t, <<>>, 500)
            /\ tasks' = tasks (-) One(t)
       ELSE IF existingChat # NoChat THEN
            /\ last' = Done([t EXCEPT !.chat = existingChat], <<>>, 200)
            /\ tasks' = tasks (-) One(t)
       ELSE IF t.data.sellerId # t.user /\ t.data.buyerId # t.user THEN
            /\ last' = Done(t, <<>>, 403)
            /\ tasks' = tasks (-) One(t)
       ELSE
            /\ tasks' = (tasks (-) One(t)) (+) One([t EXCEPT !.pc = "pc_create"])
            /\ last' = Idle
    /\ UNCHANGED <<products, chats, messages, connections, readyState, userId>>

\* POST /api/chats: storage.createChat returned.
PostChatCreate(t, fails) ==
    /\ t.kind = "rest" /\ t.pc = "pc_create"
    /\ tasks' = tasks (-) One(t)
    /\ IF fails THEN
            /\ last' = Thrown(t, <<>>, 500)
            /\ UNCHANGED chats
       ELSE
            /\ chats' = createChat(t.data.productId, t.data.buyerId, t.data.sellerId)
            /\ last' = Done([t EXCEPT !.chat = chats'[Len(chats')],
                                      !.wr = <<Write("createChat", Len(chats'))>>],
                            <<>>, 201)
    /\ UNCHANGED <<products, messages, connections, readyState, userId>>

\* PATCH /api/chats/:id arrives: storage.getChat is called.
PatchChat(u, chatId, orderType, isCompleted) ==
    /\ LET d == [Req("PATCH /api/chats/:id") EXCEPT !.chatId = chatId,
                                                    !.orderType = orderType,
                                                    !.isCompleted = isCompleted]
           t == Task("rest", "", u, d, "recv")
       IN
       IF ~IsAuthenticated(u) THEN
            /\ last' = Done(t, <<>>, 401)
            /\ UNCHANGED tasks
       ELSE
            /\ tasks' = tasks (+) One([t EXCEPT !.pc = "pt_getChat"])
            /\ last' = Idle
    /\ UNCHANGED <<products, chats, messages, connections, readyState, userId>>

\* PATCH /api/chats/:id: storage.getChat returned; the chat must exist, the
\* session user must be its seller, and the body must pass
\* updateChatSchema; storage.updateChat is called.
PatchChatGetChat(t, fails) ==
    /\ t.kind = "rest" /\ t.pc = "pt_getChat"
    /\ LET chat == getChat(t.data.chatId)
           t1 == [t EXCEPT !.chat = chat]
       IN
       IF fails THEN
            /\ last' = Thrown(t, <<>>, 500)
            /\ tasks' = tasks (-) One(t)
       ELSE IF chat = NoChat THEN
            /\ last' = Done(t1, <<>>, 404)
            /\ tasks' = tasks (-) One(t)
       ELSE IF ~IsSeller(chat, t.user) THEN
            /\ last' = Done(t1, <<>>, 403)
            /\ tasks' = tasks (-) One(t)
       ELSE IF ~updateChatSchema(Updates(t.data)) THEN
            /\ last' = Done(t1, <<>>, 400)
            /\ tasks' = tasks (-) One(t)
       ELSE
            /\ tasks' = (tasks (-) One(t)) (+) One([t1 EXCEPT !.pc = "pt_update"])
            /\ last' = Idle
    /\ UNCHANGED <<products, chats, messages, connections, readyState, userId>>

\* PATCH /api/chats/:id: storage.updateChat returned.
PatchChatUpdate(t, fails) ==
    /\ t.kind = "rest" /\ t.pc = "pt_update"
    /\ IF fails THEN
            /\ last' = Thrown(t, <<>>, 500)
            /\ tasks' = tasks (-) One(t)
            /\ UNCHANGED chats
       ELSE
            /\ chats' = updateChat(t.data.chatId, Updates(t.data))
            /\ LET t1 == [t EXCEPT !.updatedChat = chats'[t.data.chatId],
                                   !.wr = Append(@, Write("updateChat", t.data.chatId))]
               IN IF AsksCompletion(Updates(t.data))
                  THEN /\ tasks' = (tasks (-) One(t)) (+) One([t1 EXCEPT !.pc = "pt_sold"])
                       /\ last' = Idle
                  ELSE /\ tasks' = tasks (-) One(t)
                       /\ last' = Done(t1, <<>>, 200)
    /\ UNCHANGED <<products, messages, connections, readyState, userId>>

\* PATCH /api/chats/:id: storage.markProductAsSold returned.
PatchChatSold(t, fails) ==
    /\ t.kind = "rest" /\ t.pc = "pt_sold"
    /\ tasks' = tasks (-) One(t)
    /\ IF fails THEN
            /\ last' = Thrown(t, <<>>, 500)
            /\ UNCHANGED products
       ELSE LET pid == t.chat.productId
                found == pid \in 1..Len(products)
            IN
            /\ products' = IF found THEN markProductAsSold(pid) ELSE products
            /\ last' = Done([t EXCEPT !.wr = IF found
                                             THEN Append(@, Write("markProductAsSold", pid))
                                             ELSE @],
                            <<>>, 200)
    /\ UNCHANGED <<chats, messages, connections, readyState, userId>>

\* POST /api/chats/:id/messages arrives: storage.getChat is called.
PostMessage(u, chatId, text) ==
    /\ LET d == [Req("POST /api/chats/:id/messages") EXCEPT !.chatId = chatId,
                                                            !.text = text]
           t == Task("rest", "", u, d, "recv")
       IN
       IF ~IsAuthenticated(u) THEN
            /\ last' = Done(t, <<>>, 401)
            /\ UNCHANGED tasks
       ELSE
            /\ tasks' = tasks (+) One([t EXCEPT !.pc = "pm_getChat"])
            /\ last' = Idle
    /\ UNCHANGED <<products, chats, messages, connections, readyState, userId>>

\* POST /api/chats/:id/messages: storage.getChat returned; the chat must
\* exist, the session user must be a participant, the chat must not be
\* completed, and the body must pass insertMessageSchema (text required);
\* storage.createMessage is called.
PostMessageGetChat(t, fails) ==
    /\ t.kind = "rest" /\ t.pc = "pm_getChat"
    /\ LET chat == getChat(t.data.chatId)
           t1 == [t EXCEPT !.chat = chat]
       IN
       IF fails THEN
            /\ last' = Thrown(t, <<>>, 500)
            /\ tasks' = tasks (-) One(t)
       ELSE IF chat = NoChat THEN
            /\ last' = Done(t1, <<>>, 404)
            /\ tasks' = tasks (-) One(t)
       ELSE IF ~IsParticipant(chat, t.user) THEN
            /\ last' = Done(t1, <<>>, 403)
            /\ tasks' = tasks (-) One(t)
       ELSE IF IsCompleted(chat) THEN
            /\ last' = Done(t1, <<>>, 400)
            /\ tasks' = tasks (-) One(t)
       ELSE IF t.data.text = Absent THEN
            /\ last' = Done(t1, <<>>, 400)
            /\ tasks' = tasks (-) One(t)
       ELSE
            /\ tasks' = (tasks (-) One(t)) (+) One([t1 EXCEPT !.pc = "pm_create"])
            /\ last' = Idle
    /\ UNCHANGED <<products, chats, messages, connections, readyState, userId>>

\* POST /api/chats/:id/messages: storage.createMessage returned.
PostMessageCreate(t, fails) ==
    /\ t.kind = "rest" /\ t.pc = "pm_create"
    /\ tasks' = tasks (-) One(t)
    /\ IF fails THEN
            /\ last' = Thrown(t, <<>>, 500)
            /\ UNCHANGED messages
       ELSE
            /\ LET message == NewMessage(t.data.chatId, t.uid, t.data.text)
               IN /\ messages' = createMessage(t.data.chatId, t.uid, t.data.text)
                  /\ last' = Done([t EXCEPT !.wr = <<Write("createMessage", message.id)>>],
                                  <<>>, 201)
    /\ UNCHANGED <<products, chats, connections, readyState, userId>>

\* GET /api/chats arrives: storage.getChatsByUser is called for the session
\* user.
GetChats(u) ==
    /\ LET t == Task("rest", "", u, Req("GET /api/chats"), "recv")
       IN IF ~IsAuthenticated(u) THEN
              /\ last' = Done(t, <<>>, 401)
              /\ UNCHANGED tasks
          ELSE
              /\ tasks' = tasks (+) One([t EXCEPT !.pc = "gc_list"])
              /\ last' = Idle
    /\ UNCHANGED <<products, chats, messages, connections, readyState, userId>>

\* GET /api/chats: storage.getChatsByUser returned.
GetChatsList(t, fails) ==
    /\ t.kind = "rest" /\ t.pc = "gc_list"
    /\ tasks' = tasks (-) One(t)
    /\ last' = IF fails THEN Thrown(t, <<>>, 500) ELSE Done(t, <<>>, 200)
    /\ UNCHANGED <<products, chats, messages, connections, readyState, userId>>

\* GET /api/chats/:id/messages arrives: storage.getChat is called.
GetMessages(u, chatId) ==
    /\ LET d == [Req("GET /api/chats/:id/messages") EXCEPT !.chatId = chatId]
           t == Task("rest", "", u, d, "recv")
       IN
       IF ~IsAuthenticated(u) THEN
            /\ last' = Done(t, <<>>, 401)
            /\ UNCHANGED tasks
       ELSE
            /\ tasks' = tasks (+) One([t EXCEPT !.pc = "gm_getChat"])
            /\ last' = Idle
    /\ UNCHANGED <<products, chats, messages, connections, readyState, userId>>

\* GET /api/chats/:id/messages: storage.getChat returned; the chat must
\* exist and the session user must be a participant; storage.getMessages is
\* called.
GetMessagesGetChat(t, fails) ==
    /\ t.kind = "rest" /\ t.pc = "gm_getChat"
    /\ LET chat == getChat(t.data.chatId)
           t1 == [t EXCEPT !.chat = chat]
       IN
       IF fails THEN
            /\ last' = Thrown(t, <<>>, 500)
            /\ tasks' = tasks (-) One(t)
       ELSE IF chat = NoChat THEN
            /\ last' = Done(t1, <<>>, 404)
            /\ tasks' = tasks (-) One(t)
       ELSE IF ~IsParticipant(chat, t.user) THEN
            /\ last' = Done(t1, <<>>, 403)
            /\ tasks' = tasks (-) One(t)
       ELSE
            /\ tasks' = (tasks (-) One(t)) (+) One([t1 EXCEPT !.pc = "gm_list"])
            /\ last' = Idle
    /\ UNCHANGED <<products, chats, messages, connections, readyState, userId>>

\* GET /api/chats/:id/messages: storage.getMessages returned.
GetMessagesList(t, fails) ==
    /\ t.kind = "rest" /\ t.pc = "gm_list"
    /\ tasks' = tasks (-) One(t)
    /\ last' = IF fails THEN Thrown(t, <<>>, 500) ELSE Done(t, <<>>, 200)
    /\ UNCHANGED <<products, chats, messages, connections, readyState, userId>>

\* GET /api/products/:id arrives: the route has no session check;
\* storage.getProduct is called.
GetProduct(u, productId) ==
    /\ LET d == [Req("GET /api/products/:id") EXCEPT !.productId = productId]
       IN tasks' = tasks (+) One(Task("rest", "", u, d, "gp_get"))
    /\ last' = Idle
    /\ UNCHANGED <<products, chats, messages, connections, readyState, userId>>

\* GET /api/products/:id: storage.getProduct returned.
GetProductGet(t, fails) ==
    /\ t.kind = "rest" /\ t.pc = "gp_get"
    /\ tasks' = tasks (-) One(t)
    /\ last' = IF fails THEN Thrown(t, <<>>, 500)
               ELSE IF getProduct(t.data.productId).id = 0 THEN Done(t, <<>>, 404)
               ELSE Done(t, <<>>, 200)
    /\ UNCHANGED <<products, chats, messages, connections, readyState, userId>>

\* ---------------------------------------------------------------- system
\* At most MaxInFlight requests are being handled at a time, and the
\* connection map holds at most MaxRegistered entries.
Accept(c, d) ==
    /\ InFlight < MaxInFlight
    /\ d.type = "auth" => Registered < MaxRegistered
    /\ WsReceive(c, d)

\* The whole system with one realtime client.
Next ==
    \/ \E c \in OneConn : Connect(c)
    \/ \E c \in OneConn : Closing(c)
    \/ \E c \in OneConn : Close(c)
    \/ \E c \in OneConn, d \in WsFrames : Accept(c, d)
    \/ \E t \in BagToSet(tasks), fails \in BOOLEAN : WsNewMessageGetChat(t, fails)
    \/ \E t \in BagToSet(tasks), fails \in BOOLEAN :
          (fails \/ Len(messages) < MaxMessages) /\ WsNewMessageCreate(t, fails)
    \/ \E t \in BagToSet(tasks), fails \in BOOLEAN : WsUpdateChatGetChat(t, fails)
    \/ \E t \in BagToSet(tasks), fails \in BOOLEAN : WsUpdateChatUpdate(t, fails)
    \/ \E t \in BagToSet(tasks), fails \in BOOLEAN : WsUpdateChatSold(t, fails)
    \/ \E u \in Sellers, b \in ProductBodies :
          InFlight < MaxInFlight /\ PostProduct(u, b)
    \/ \E t \in BagToSet(tasks), fails \in BOOLEAN :
          (fails \/ Len(products) < MaxProducts) /\ PostProductCreate(t, fails)
    \/ \E u \in Users, p \in ProductIds, bs \in ChatPairs :
          InFlight < MaxInFlight /\ PostChat(u, p, bs[1], bs[2])
    \/ \E t \in BagToSet(tasks), fails \in BOOLEAN : PostChatGetProduct(t, fails)
    \/ \E t \in BagToSet(tasks), fails \in BOOLEAN : PostChatFind(t, fails)
    \/ \E t \in BagToSet(tasks), fails \in BOOLEAN :
          (fails \/ Len(chats) < MaxChats) /\ PostChatCreate(t, fails)
    \/ \E u \in Users, i \in ChatIds, x \in UpdateInputs :
          InFlight < MaxInFlight /\ PatchChat(u, i, x.orderType, x.isCompleted)
    \/ \E t \in BagToSet(tasks), fails \in BOOLEAN : PatchChatGetChat(t, fails)
    \/ \E t \in BagToSet(tasks), fails \in BOOLEAN : PatchChatUpdate(t, fails)
    \/ \E t \in BagToSet(tasks), fails \in BOOLEAN : PatchChatSold(t, fails)
    \/ \E u \in Users, i \in ChatIds, x \in Texts \cup {Absent} :
          InFlight < MaxInFlight /\ PostMessage(u, i, x)
    \/ \E t \in BagToSet(tasks), fails \in BOOLEAN : PostMessageGetChat(t, fails)
    \/ \E t \in BagToSet(tasks), fails \in BOOLEAN :
          (fails \/ Len(messages) < MaxMessages) /\ PostMessageCreate(t, fails)

Spec == Init /\ [][Next]_vars

\* Two realtime clients over one listing: chat creation, authentication and
\* messaging (the fan-out of new_message).
FanoutFrames == {d \in WsFrames : d.type = "auth" \/ (d.type = "new_message" /\ d.text # Absent)}

NextFanout ==
    \/ \E c \in Conns : Connect(c)
    \/ \E c \in Conns : Closing(c)
    \/ \E c \in Conns : Close(c)
    \/ \E c \in Conns, d \in FanoutFrames : Accept(c, d)
    \/ \E t \in BagToSet(tasks), fails \in BOOLEAN : WsNewMessageGetChat(t, fails)
    \/ \E t \in BagToSet(tasks), fails \in BOOLEAN :
          (fails \/ Len(messages) < MaxMessages) /\ WsNewMessageCreate(t, fails)
    \/ \E u \in Sellers :
          InFlight < MaxInFlight /\ PostProduct(u, DefaultListing)
    \/ \E t \in BagToSet(tasks), fails \in BOOLEAN :
          (fails \/ Len(products) < MaxProducts) /\ PostProductCreate(t, fails)
    \/ \E u \in Users, p \in ProductIds, bs \in ChatPairs :
          InFlight < MaxInFlight /\ PostChat(u, p, bs[1], bs[2])
    \/ \E t \in BagToSet(tasks), fails \in BOOLEAN : PostChatGetProduct(t, fails)
    \/ \E t \in BagToSet(tasks), fails \in BOOLEAN : PostChatFind(t, fails)
    \/ \E t \in BagToSet(tasks), fails \in BOOLEAN :
          (fails \/ Len(chats) < MaxChats) /\ PostChatCreate(t, fails)

SpecFanout == Init /\ [][NextFanout]_vars

\* The REST routes alone, one request at a time, called with the session of
\* a user or without a session.
Sessions == Users \cup {Null}

NextRest ==
    \/ \E u \in Sessions, b \in ProductBodies :
          InFlight < MaxInFlight /\ PostProduct(u, b)
    \/ \E t \in BagToSet(tasks), fails \in BOOLEAN :
          (fails \/ Len(products) < MaxProducts) /\ PostProductCreate(t, fails)
    \/ \E u \in Sessions, p \in ProductIds \cup {Null}, bs \in ChatPairs :
          InFlight < MaxInFlight /\ PostChat(u, p, bs[1], bs[2])
    \/ \E t \in BagToSet(tasks), fails \in BOOLEAN : PostChatGetProduct(t, fails)
    \/ \E t \in BagToSet(tasks), fails \in BOOLEAN : PostChatFind(t, fails)
    \/ \E t \in BagToSet(tasks), fails \in BOOLEAN :
          (fails \/ Len(chats) < MaxChats) /\ PostChatCreate(t, fails)
    \/ \E u \in Sessions, i \in ChatIds, x \in UpdateInputs :
          InFlight < MaxInFlight /\ PatchChat(u, i, x.orderType, x.isCompleted)
    \/ \E t \in BagToSet(tasks), fails \in BOOLEAN : PatchChatGetChat(t, fails)
    \/ \E t \in BagToSet(tasks), fails \in BOOLEAN : PatchChatUpdate(t, fails)
    \/ \E t \in BagToSet(tasks), fails \in BOOLEAN : PatchChatSold(t, fails)
    \/ \E u \in Sessions, i \in ChatIds, x \in Texts \cup {Absent} :
          InFlight < MaxInFlight /\ PostMessage(u, i, x)
    \/ \E t \in BagToSet(tasks), fails \in BOOLEAN : PostMessageGetChat(t, fails)
    \/ \E t \in BagToSet(tasks), fails \in BOOLEAN :
          (fails \/ Len(messages) < MaxMessages) /\ PostMessageCreate(t, fails)
    \/ \E u \in Sessions : InFlight < MaxInFlight /\ GetChats(u)
    \/ \E t \in BagToSet(tasks), fails \in BOOLEAN : GetChatsList(t, fails)
    \/ \E u \in Sessions, i \in ChatIds :
          InFlight < MaxInFlight /\ GetMessages(u, i)
    \/ \E t \in BagToSet(tasks), fails \in BOOLEAN : GetMessagesGetChat(t, fails)
    \/ \E t \in BagToSet(tasks), fails \in BOOLEAN : GetMessagesList(t, fails)
    \/ \E u \in Sessions, p \in ProductIds :
          InFlight < MaxInFlight /\ GetProduct(u, p)
    \/ \E t \in BagToSet(tasks), fails \in BOOLEAN : GetProductGet(t, fails)

SpecRest == Init /\ [][NextRest]_vars

\* Overlapping chat creation: up to MaxAsync REST requests are being handled
\* at a time.
NextChats ==
    \/ \E u \in Sellers :
          InFlight < MaxAsync /\ PostProduct(u, DefaultListing)
    \/ \E t \in BagToSet(tasks), fails \in BOOLEAN :
          (fails \/ Len(products) < MaxProducts) /\ PostProductCreate(t, fails)
    \/ \E u \in Users, p \in ProductIds, bs \in ChatPairs :
          InFlight < MaxAsync /\ PostChat(u, p, bs[1], bs[2])
    \/ \E t \in BagToSet(tasks), fails \in BOOLEAN : PostChatGetProduct(t, fails)
    \/ \E t \in BagToSet(tasks), fails \in BOOLEAN : PostChatFind(t, fails)
    \/ \E t \in BagToSet(tasks), fails \in BOOLEAN :
          (fails \/ Len(chats) < MaxChatRows) /\ PostChatCreate(t, fails)

SpecChats == Init /\ [][NextChats]_vars

\* Overlapping realtime handlers: a frame is taken up while up to
\* MaxAsync - 1 earlier handlers are still suspended on a storage call.
\* The clients authenticate as users, send messages and complete chats.
\* The listing and its chat are set up over REST, one request at a time,
\* while no handler is suspended.
AsyncFrames ==
    {d \in WsFrames :
        \/ d.type = "auth" /\ d.userId \in Users
        \/ d.type = "new_message" /\ d.text # Absent
        \/ d.type = "update_chat" /\ Truthy(d.chatId) /\ d.isCompleted = "true"}

AcceptAsync(c, d) ==
    /\ InFlight < MaxAsync
    /\ d.type = "auth" => Registered < MaxRegistered
    /\ WsReceive(c, d)

NextAsync ==
    \/ \E c \in Conns : Connect(c)
    \/ \E c \in Conns : Closing(c)
    \/ \E c \in Conns : Close(c)
    \/ \E c \in Conns, d \in AsyncFrames : AcceptAsync(c, d)
    \/ \E t \in BagToSet(tasks), fails \in BOOLEAN : WsNewMessageGetChat(t, fails)
    \/ \E t \in BagToSet(tasks), fails \in BOOLEAN :
          (fails \/ Len(messages) < MaxMessages) /\ WsNewMessageCreate(t, fails)
    \/ \E t \in BagToSet(tasks), fails \in BOOLEAN : WsUpdateChatGetChat(t, fails)
    \/ \E t \in BagToSet(tasks), fails \in BOOLEAN : WsUpdateChatUpdate(t, fails)
    \/ \E t \in BagToSet(tasks), fails \in BOOLEAN : WsUpdateChatSold(t, fails)
    \/ \E u \in Sellers :
          InFlight < MaxInFlight /\ PostProduct(u, DefaultListing)
    \/ \E t \in BagToSet(tasks), fails \in BOOLEAN :
          (fails \/ Len(products) < MaxProducts) /\ PostProductCreate(t, fails)
    \/ \E u \in Users, p \in ProductIds :
          InFlight < MaxInFlight /\ PostChat(u, p, 2, 1)
    \/ \E t \in BagToSet(tasks), fails \in BOOLEAN : PostChatGetProduct(t, fails)
    \/ \E t \in BagToSet(tasks), fails \in BOOLEAN : PostChatFind(t, fails)
    \/ \E t \in BagToSet(tasks), fails \in BOOLEAN :
          (fails \/ Len(chats) < MaxChats) /\ PostChatCreate(t, fails)

SpecAsync == Init /\ [][NextAsync]_vars

\* Completion over both channels with every storage write succeeding: up
\* to MaxAsync update_chat handlers and PATCH requests in flight at once;
\* reads may still fail.  The updates asked for are those of the schema.
CascadeInputs == {x \in UpdateInputs : updateChatSchema(x)}

CascadeFrames ==
    {d \in WsFrames :
        \/ d.type = "auth" /\ d.userId \in Users
        \/ d.type = "update_chat" /\ Truthy(d.chatId) /\ Updates(d) \in CascadeInputs}

NextCascade ==
    \/ \E c \in OneConn : Connect(c)
    \/ \E c \in OneConn : Closing(c)
    \/ \E c \in OneConn : Close(c)
    \/ \E c \in OneConn, d \in CascadeFrames : AcceptAsync(c, d)
    \/ \E t \in BagToSet(tasks), fails \in BOOLEAN : WsUpdateChatGetChat(t, fails)
    \/ \E t \in BagToSet(tasks) : WsUpdateChatUpdate(t, FALSE)
    \/ \E t \in BagToSet(tasks) : WsUpdateChatSold(t, FALSE)
    \/ \E u \in Sellers :
          /\ InFlight < MaxAsync
          /\ Len(products) + Pending("pp_create") < MaxProducts
          /\ PostProduct(u, DefaultListing)
    \/ \E t \in BagToSet(tasks) : PostProductCreate(t, FALSE)
    \/ \E u \in Users, p \in ProductIds :
          InFlight < MaxAsync /\ PostChat(u, p, 2, 1)
    \/ \E t \in BagToSet(tasks), fails \in BOOLEAN : PostChatGetProduct(t, fails)
    \/ \E t \in BagToSet(tasks), fails \in BOOLEAN : PostChatFind(t, fails)
    \/ \E t \in BagToSet(tasks) : Len(chats) < MaxChats /\ PostChatCreate(t, FALSE)
    \/ \E u \in Users, i \in ChatIds, x \in CascadeInputs :
          InFlight < MaxAsync /\ PatchChat(u, i, x.orderType, x.isCompleted)
    \/ \E t \in BagToSet(tasks), fails \in BOOLEAN : PatchChatGetChat(t, fails)
    \/ \E t \in BagToSet(tasks) : PatchChatUpdate(t, FALSE)
    \/ \E t \in BagToSet(tasks) : PatchChatSold(t, FALSE)

SpecCascade == Init /\ [][NextCascade]_vars

\* ---------------------------------------------------------------- reading a finished handler
\* The number of occurrences of x in a list.
RECURSIVE Occurrences(_, _)
Occurrences(list, x) ==
    IF list = <<>> THEN 0
    ELSE (IF Head(list) = x THEN 1 ELSE 0) + Occurrences(Tail(list), x)

\* The number of frames of type ty that the calls of out wrote to handle c.
RECURSIVE Delivered(_, _, _)
Delivered(out, c, ty) ==
    IF out = <<>> THEN 0
    ELSE (IF Head(out).ev.type = ty THEN Occurrences(Head(out).to, c) ELSE 0)
         + Delivered(Tail(out), c, ty)

\* The calls of out that carry a frame of type ty.
CallsOf(out, ty) == SelectSeq(out, LAMBDA o : o.ev.type = ty)

\* The storage tables change only by the writes the handlers log in wr:
\* a step that leaves wr alone leaves the tables alone.
WritesAreLogged ==
    [][(\A t \in BagToSet(tasks') : t \in BagToSet(tasks) \/ t.wr = <<>>)
         /\ (last' = last \/ last'.wr = <<>>)
       => (products' = products /\ chats' = chats /\ messages' = messages)]_vars

\* The handler answered with one error frame on its own socket and sent
\* nothing else (ws), or with a 4xx status (rest); it wrote nothing.
RejectedWs(l) ==
    /\ Len(l.out) = 1
    /\ l.out[1].op = "reply"
    /\ l.out[1].ev.type = "error"
    /\ l.out[1].to = (IF readyState[l.conn] = "open" THEN <<l.conn>> ELSE <<>>)
    /\ l.wr = <<>>

RejectedRest(l) ==
    /\ l.status \in {400, 403}
    /\ l.out = <<>>
    /\ l.wr = <<>>

Rejected(l) == IF l.kind = "ws" THEN RejectedWs(l) ELSE RejectedRest(l)

IsSendMessage(l) ==
    \/ l.kind = "ws" /\ l.data.type = "new_message"
    \/ l.kind = "rest" /\ l.data.type = "POST /api/chats/:id/messages"

IsUpdateChat(l) ==
    \/ l.kind = "ws" /\ l.data.type = "update_chat"
    \/ l.kind = "rest" /\ l.data.type = "PATCH /api/chats/:id"

\* ---------------------------------------------------------------- claims

\* C1: a new_message frame or a POST /chats/:id/messages whose handler reads
\* the chat as completed is answered with an error, creates no message row
\* and fans nothing out, for a buyer and for a seller alike.
C1_Case(l) == IsSendMessage(l) /\ l.chat # NoChat /\ l.chat.isCompleted

C1_CompletedChatRejectsMessages == C1_Case(last) => Rejected(last)

C1_Witness ==
    /\ C1_Case(last)
    /\ last.kind = "ws"
    /\ last.uid = last.chat.buyerId
    /\ last.chat.buyerId # last.chat.sellerId
    /\ last.out[1].ev = ErrorEv("Chat is completed")

\* C2: once a chat is completed no request changes any of its fields any
\* more (isCompleted stays true, orderType keeps its value).
C2_CompletedChatIsFrozen ==
    [][\A i \in 1..Len(chats) : chats[i].isCompleted => chats'[i] = chats[i]]_vars

\* C3: an update_chat frame or a PATCH asking for isCompleted = true from a
\* user who is not the chat's seller is answered with an error, changes
\* neither the chat nor its product, and sends no chat_update or
\* product_sold.
C3_Case(l) ==
    /\ IsUpdateChat(l)
    /\ l.data.isCompleted = "true"
    /\ l.chat # NoChat
    /\ l.uid # l.chat.sellerId

C3_OnlySellerCompletes == C3_Case(last) => Rejected(last)

C3_Witness ==
    /\ C3_Case(last)
    /\ last.kind = "ws"
    /\ last.uid = last.chat.buyerId
    /\ last.out[1].ev = ErrorEv("Only seller can update chat")

\* C4: every message row has the buyer or the seller of its chat as sender,
\* and a send-message request from a user who is neither is answered with
\* an error and creates no row.
C4_SendersAreParticipants ==
    \A i \in 1..Len(messages) :
        /\ messages[i].chatId \in 1..Len(chats)
        /\ messages[i].senderId \in {chats[messages[i].chatId].buyerId,
                                     chats[messages[i].chatId].sellerId}

C4_Case(l) ==
    IsSendMessage(l) /\ l.chat # NoChat /\ l.uid \notin {l.chat.buyerId, l.chat.sellerId}

C4_OnlyParticipantsSend ==
    /\ C4_SendersAreParticipants
    /\ C4_Case(last) => Rejected(last)

C4_Witness ==
    /\ C4_Case(last)
    /\ last.kind = "ws"
    /\ Truthy(last.uid)
    /\ Len(messages) = 1

\* C5: when the seller's update_chat frame with isCompleted = true has been
\* applied to a chat it read as not completed and the handler has ended, the
\* chat's product is sold and exactly one product_sold event, carrying that
\* product's id, was broadcast: one broadcast call, one frame to every open
\* registered connection.
C5_Case(l) ==
    /\ l.kind = "ws" /\ l.data.type = "update_chat" /\ l.data.isCompleted = "true"
    /\ l.chat # NoChat /\ ~l.chat.isCompleted
    /\ \E k \in 1..Len(l.wr) : l.wr[k] = Write("updateChat", l.chat.id)

C5_CompletionCascades ==
    C5_Case(last) =>
        /\ products[last.chat.productId].isSold
        /\ LET sold == CallsOf(last.out, "product_sold")
           IN /\ Len(sold) = 1
              /\ sold[1].op = "broadcast"
              /\ sold[1].ev = ProductSoldEv(last.chat.productId)
        /\ \A c \in Conns :
               (readyState[c] = "open" /\ Occurrences(Flatten(connections), c) >= 1)
                   => Delivered(last.out, c, "product_sold") = 1

\* C6: for an accepted new_message from participant A of a chat whose other
\* participant is B, every open connection bound to B gets exactly one
\* message frame.
Accepted(l) ==
    l.kind = "ws" /\ l.data.type = "new_message" /\ l.pc = "nm_create" /\ ~l.threw

OtherParticipant(chat, a) == IF a = chat.buyerId THEN chat.sellerId ELSE chat.buyerId

C6_RecipientGetsExactlyOne ==
    Accepted(last) /\ OtherParticipant(last.chat, last.uid) # last.uid =>
        \A c \in Conns :
            (readyState[c] = "open" /\ userId[c] = OtherParticipant(last.chat, last.uid))
                => Delivered(last.out, c, "message") = 1

\* C7: for an accepted new_message the sending connection, while open, gets
\* exactly one message frame.
C7_SenderGetsExactlyOne ==
    Accepted(last) /\ readyState[last.conn] = "open" =>
        Delivered(last.out, last.conn, "message") = 1

\* C8: on a connection that never authenticated, every frame other than
\* auth is answered with one error frame on that connection and has no
\* other effect: no storage write, no frame to another socket, no handler
\* left running.
C8_Case(l) == l.kind = "ws" /\ l.data.type # "auth" /\ l.uid = Null

C8_UnauthenticatedIsRejected ==
    /\ C8_Case(last) => RejectedWs(last) /\ last.pc = "recv"
    /\ \A t \in BagToSet(tasks) : t.kind = "ws" => t.uid # Null

C8_Witness ==
    /\ C8_Case(last)
    /\ last.data.type = "unknown"
    /\ last.out[1].ev = ErrorEv("Authentication required")
    /\ Len(chats) = 1

\* C9: after auth_success for an auth frame with userId u the connection is
\* bound to u: while it is open it is registered under u, and its later
\* frames are not answered with "Authentication required".
C9_AuthBinds ==
    \A c \in Conns :
        userId[c] # Null =>
            /\ readyState[c] = "open" =>
                  /\ Has(connections, userId[c])
                  /\ Occurrences(Get(connections, userId[c]), c) >= 1
            /\ (last.kind = "ws" /\ last.conn = c /\ last.data.type \in {"new_message", "update_chat"})
                  => ~(Len(last.out) = 1 /\ last.out[1].ev = ErrorEv("Authentication required"))

\* C10: a closed connection is in no user's list of the connection map.
C10_ClosedIsUnregistered ==
    \A c \in Conns :
        readyState[c] = "closed" =>
            \A u \in Keys(connections) : Occurrences(Get(connections, u), c) = 0

\* C11: on an authenticated connection a frame that is malformed, of an
\* unknown type, or lacks a required field (new_message without text or
\* chatId, update_chat without chatId) is answered with exactly one error
\* frame, written to that connection only.
C11_Case(l) ==
    /\ l.kind = "ws" /\ l.pc = "recv" /\ Truthy(l.uid)
    /\ \/ l.data.type \in {"malformed", "unknown"}
       \/ l.data.type = "new_message" /\ (l.data.text = Absent \/ ~Truthy(l.data.chatId))
       \/ l.data.type = "update_chat" /\ ~Truthy(l.data.chatId)

C11_BadFrameGetsOneError == C11_Case(last) => RejectedWs(last)

\* C12: a realtime handler that ends with an error frame has written
\* nothing to storage and has sent nothing but that one frame, to its own
\* connection.
C12_Case(l) == l.kind = "ws" /\ \E k \in 1..Len(l.out) : l.out[k].ev.type = "error"

C12_ErrorLeavesNoTrace == C12_Case(last) => RejectedWs(last)

\* C16: on a chat that is not completed an update_chat frame carrying an
\* orderType is applied when the chat's buyer sends it (the chat's orderType
\* becomes the requested one) and is rejected without a write when the
\* seller sends it.
C16_Case(l) ==
    /\ l.kind = "ws" /\ l.data.type = "update_chat" /\ l.data.orderType # Absent
    /\ l.chat # NoChat /\ ~l.chat.isCompleted
    /\ l.chat.buyerId # l.chat.sellerId
    /\ l.uid \in {l.chat.buyerId, l.chat.sellerId}
    /\ ~l.threw

C16_BuyerSelectsOrderType ==
    C16_Case(last) =>
        IF last.uid = last.chat.buyerId
        THEN /\ last.wr = <<Write("updateChat", last.chat.id)>>
             /\ chats[last.chat.id].orderType = last.data.orderType
        ELSE Rejected(last)

\* C18: an update_chat frame with isCompleted = true on a chat that is
\* already completed does not mark the product sold again and makes no
\* product_sold broadcast.
C18_Case(l) ==
    /\ l.kind = "ws" /\ l.data.type = "update_chat" /\ l.data.isCompleted = "true"
    /\ l.chat # NoChat /\ l.chat.isCompleted

C18_CascadeOnlyOnce ==
    C18_Case(last) =>
        /\ CallsOf(last.out, "product_sold") = <<>>
        /\ \A k \in 1..Len(last.wr) : last.wr[k].op # "markProductAsSold"

\* C19: every chat has a buyer different from its seller, and its seller is
\* the seller of its product.
C19_ChatRolesAreSound ==
    \A i \in 1..Len(chats) :
        /\ chats[i].buyerId # chats[i].sellerId
        /\ chats[i].sellerId = getProduct(chats[i].productId).sellerId

\* C17: in every state a chat's orderType is one its product allows
\* (delivery needs allowDelivery, pickup allowPickup, campus
\* allowCampusMeetup).
OrderTypeAllowed(p, orderType) ==
    CASE orderType = "delivery" -> p.allowDelivery
      [] orderType = "pickup" -> p.allowPickup
      [] orderType = "campus" -> p.allowCampusMeetup
      [] OTHER -> TRUE

C17_OrderTypeIsAllowed ==
    \A i \in 1..Len(chats) :
        OrderTypeAllowed(getProduct(chats[i].productId), chats[i].orderType)

\* C20: sendToUser and broadcastMessage never raise and write to open
\* sockets only; a new_message whose row was inserted ends without an error
\* frame, with the row in the table and the confirmation on the sender's
\* socket, also when the recipient has no entry in the connection map.
C20_Case(l) ==
    /\ l.kind = "ws" /\ l.data.type = "new_message"
    /\ \E k \in 1..Len(l.wr) : l.wr[k].op = "createMessage"

C20_SendsNeverRaise ==
    /\ \A k \in 1..Len(last.out) :
          /\ ~last.out[k].raised
          /\ \A j \in 1..Len(last.out[k].to) : readyState[last.out[k].to[j]] = "open"
    /\ C20_Case(last) =>
          /\ ~last.threw
          /\ \A k \in 1..Len(last.out) : last.out[k].ev.type # "error"
          /\ messages # <<>>
          /\ messages[Len(messages)].chatId = last.data.chatId
          /\ messages[Len(messages)].senderId = last.uid
          /\ messages[Len(messages)].text = last.data.text
          /\ last.out[Len(last.out)] = Reply(last.conn, MessageEv(last.data.chatId, messages[Len(messages)]))

C20_Witness ==
    /\ C20_Case(last)
    /\ readyState[last.conn] = "open"
    /\ ~Has(connections, OtherParticipant(last.chat, last.uid))
    /\ last.out[1].op = "sendToUser" /\ last.out[1].to = <<>>

\* C13: of two frames received on one connection the earlier is handled to
\* completion first: when the handler of the earlier frame makes its
\* storage write, the handler of a later frame of that connection has not
\* yet read storage (it is still waiting for its first storage call).
C13_Case(l) ==
    /\ l.kind = "ws" /\ l.behind = 0 /\ l.wr # <<>> /\ ~l.threw

C13_HandledInOrder ==
    C13_Case(last) =>
        \A b \in BagToSet(tasks) :
            (b.kind = "ws" /\ b.conn = last.conn /\ b.behind > 0)
                => b.pc \in {"nm_getChat", "uc_getChat"}

\* C14: the chats table holds at most one row per (productId, buyerId,
\* sellerId), and a successful POST /api/chats answers with the one chat of
\* its triple.
C14_OneChatPerTriple ==
    /\ \A i, j \in 1..Len(chats) :
          (/\ chats[i].productId = chats[j].productId
           /\ chats[i].buyerId = chats[j].buyerId
           /\ chats[i].sellerId = chats[j].sellerId) => i = j
    /\ (last.kind = "rest" /\ last.data.type = "POST /api/chats" /\ last.status \in {200, 201})
          => last.chat.id = getChatBetweenUsers(last.data.productId, last.data.buyerId,
                                                last.data.sellerId).id

\* C15: no message row is inserted for a chat whose isCompleted is true at
\* the time of the insert.
C15_Case(l) ==
    IsSendMessage(l) /\ \E k \in 1..Len(l.wr) : l.wr[k].op = "createMessage"

C15_NoMessageAfterCompletion ==
    C15_Case(last) => ~chats[last.data.chatId].isCompleted

\* C21: GET /chats, GET /chats/:id/messages, PATCH /chats/:id and
\* GET /products/:id, called without a session, answer 401 (no data) and
\* write nothing.
C21_Case(l) ==
    /\ l.kind = "rest" /\ l.user = Null
    /\ l.data.type \in {"GET /api/chats", "GET /api/chats/:id/messages",
                        "PATCH /api/chats/:id", "GET /api/products/:id"}

C21_NoSessionNoAccess ==
    /\ C21_Case(last) => last.status = 401 /\ last.wr = <<>>
    /\ \A t \in BagToSet(tasks) : t.kind = "rest" => t.user # Null

\* C22: a connection acts only as the user of the session that opened it:
\* a message inserted for a frame of the connection has that user as
\* senderId, and an update_chat frame of the connection is applied only to
\* a chat whose seller is that user.
C22_ActsOnlyAsSessionUser ==
    /\ (last.kind = "ws" /\ last.data.type = "new_message"
          /\ \E k \in 1..Len(last.wr) : last.wr[k].op = "createMessage")
        => messages[Len(messages)].senderId = SessionOf[last.conn]
    /\ (last.kind = "ws" /\ last.data.type = "update_chat"
          /\ \E k \in 1..Len(last.wr) : last.wr[k].op = "updateChat")
        => last.chat.sellerId = SessionOf[last.conn]

\* C23: no key of the connection map maps to an empty list.
C23_NoEmptyEntry ==
    \A u \in Keys(connections) : Len(Get(connections, u)) >= 1

C23_Witness ==
    /\ \E c \in Conns :
          readyState[c] = "closed" /\ Truthy(userId[c]) /\ ~Has(connections, userId[c])
    /\ connections # <<>>

\* C24: after an update_chat frame has been applied and its handler has
\* returned, every open connection bound to the chat's buyer and the
\* seller's sending connection have each received one chat_update frame,
\* and that frame carries the chat's id and the orderType and isCompleted
\* the update wrote.
C24_Case(l) ==
    /\ l.kind = "ws" /\ l.data.type = "update_chat" /\ ~l.threw
    /\ \E k \in 1..Len(l.wr) : l.wr[k].op = "updateChat"

C24_ChatUpdateDelivered ==
    C24_Case(last) =>
        /\ \A c \in Conns :
              (readyState[c] = "open" /\ (userId[c] = last.chat.buyerId \/ c = last.conn))
                  => Delivered(last.out, c, "chat_update") = 1
        /\ \A k \in 1..Len(last.out) :
              last.out[k].ev.type = "chat_update"
                  => last.out[k].ev = ChatUpdateEv(ApplyUpdates(last.chat, Updates(last.data)))

\* C25: the connection map holds every handle at most once, over the lists
\* of all users.
C25_HandleRegisteredOnce ==
    \A c \in Conns :
        Occurrences(Flatten(connections), c) <= 1

\* C26: in every state a chat's orderType is null or one of campus,
\* delivery, pickup.
C26_OrderTypeInEnum ==
    \A i \in 1..Len(chats) : chats[i].orderType \in OrderTypes \cup {"null"}

\* C27: a step changes a product row only by turning isSold from false to
\* true, and only when the handler that finishes in that step is an
\* update_chat or PATCH with isCompleted = true, run by the seller of a chat
\* of that product; rows are never removed, so isSold never returns to false.
C27_Step ==
    /\ Len(products') >= Len(products)
    /\ \A i \in 1..Len(products) :
           products'[i] # products[i] =>
               /\ ~products[i].isSold
               /\ products'[i] = [products[i] EXCEPT !.isSold = TRUE]
               /\ IsUpdateChat(last')
               /\ last'.data.isCompleted = "true"
               /\ last'.chat # NoChat
               /\ last'.chat.productId = products[i].id
               /\ last'.chat.sellerId = last'.uid

C28_FanoutToOtherParticipant ==
    Accepted(last) =>
        /\ last.out # <<>>
        /\ last.out[1].op = "sendToUser"
        /\ last.out[1].to =
               sendToUser(OtherParticipant(last.chat, last.uid), last.out[1].ev).to

\* C29: when no handler or request is in flight and no storage write has
\* failed, every completed chat whose product exists has a sold product.
C29_CompletedMeansSold ==
    InFlight = 0 =>
        \A i \in 1..Len(chats) :
            (chats[i].isCompleted /\ chats[i].productId \in 1..Len(products))
                => products[chats[i].productId].isSold

C29_Witness ==
    /\ InFlight = 0
    /\ IsUpdateChat(last) /\ last.data.isCompleted = "true"
    /\ \E i \in 1..Len(chats) :
           /\ chats[i].isCompleted
           /\ chats[i].productId \in 1..Len(products)
           /\ products[chats[i].productId].isSold

\* C30: POST /api/chats answers with a chat, found (200) or created (201),
\* only when the session user is that chat's buyer or seller.
C30_Case(l) ==
    l.kind = "rest" /\ l.data.type = "POST /api/chats" /\ l.status \in {200, 201}

C30_ChatOnlyToParticipant ==
    C30_Case(last) =>
        /\ last.chat # NoChat
        /\ last.user \in {last.chat.buyerId, last.chat.sellerId}

====
